---- MODULE Spec2Model ----
(***************************************************************************)
(* Document-Retrieval-System: the ingestion pipeline (upload_file), the    *)
(* chunker (DocumentChunking), the JSONL writer, the index/upsert manager   *)
(* and the retriever of src/src/database/mongo_utils.py.                    *)
(*                                                                          *)
(* Text is modelled line by line: a page_content is a sequence of lines, a  *)
(* line is either plain text or a page marker "# Page N".  Lengths are      *)
(* counted in lines.                                                        *)
(***************************************************************************)
EXTENDS Integers, Sequences, FiniteSets, TLC

\* ------------------------------------------------------------------ bounds
MaxSections   == 2     \* header sections of one document
MaxSectionLen == 2     \* lines of one header section
MaxBatch      == 2     \* chunks / vectors handed to one upsert_data call
MaxStore      == 3     \* records the collection may hold
MaxCalls      == 3     \* calls of one module-level function in a run
MaxRestarts   == 1     \* restarts of a serving process in a run
MaxWrites     == 2     \* save_splits_jsonl calls in a run

\* ------------------------------------------------------- program constants
NumCandidatesFactor == 20   \* "numCandidates": top_k * 20
UserQueryTopK       == 3    \* ask_llm: top_k=3

\* Python's None, and the string str(None) that an f-string prints for it.
None == "None"

\* ------------------------------------------------------------------ state
VARIABLES
    \* DocumentChunking.doc_chunk_splits (one call)
    header_splits,   \* the argument: sequence of Documents
    chunk_params,    \* <<chunk_size, chunk_overlap>>
    chunked_docs,    \* the return value
    chunk_pc,        \* "start" | "done"
    \* the MongoDB collection and its Atlas search indexes
    coll,            \* sequence of records, in insertion order
    search_indexes,  \* set of index names
    create_requests, \* log of create_search_indexes requests: was the name present?
    \* one serving process per element of Procs
    hash_seed,       \* the process's str-hash salt (PYTHONHASHSEED unset)
    restarts,        \* number of restarts so far
    pc,              \* position of the process's current upload_file call
    req,             \* the upload being handled
    loc,             \* locals of the handler
    response,        \* the HTTP response of the last upload
    effects,         \* what the current request has written so far
    ingest_log,      \* <<process, upload, "ok" | "failed">> of the uploads that ended
    \* the output folder
    files,           \* set of <<path, content>>: the files that exist
    \* module-level calls (upsert_data, search_result_for_llm, save_splits_jsonl)
    calls,           \* number of calls made
    last_call,       \* arguments and outcome of the latest call
    history          \* per destination: the batches handed to save_splits_jsonl

chunkVars  == <<header_splits, chunk_params, chunked_docs, chunk_pc>>
storeVars  == <<coll, search_indexes, create_requests>>
procVars   == <<hash_seed, restarts, pc, req, loc, response, effects, ingest_log>>
fileVars   == <<files>>
callVars   == <<calls, last_call, history>>
vars == <<chunkVars, storeVars, procVars, fileVars, callVars>>

\* ------------------------------------------------------- small operators
Range(s) == {s[i] : i \in 1..Len(s)}

SeqsUpTo(S, n) == UNION {[1..k -> S] : k \in 0..n}

NonEmptySeqsUpTo(S, n) == UNION {[1..k -> S] : k \in 1..n}

Min(a, b) == IF a <= b THEN a ELSE b

RECURSIVE Concat(_)
Concat(ss) == IF ss = <<>> THEN <<>> ELSE Head(ss) \o Concat(Tail(ss))

\* ----------------------------------------------------------------- text
PageMarkers == {"# Page 1", "# Page 2"}

TextLines == {"alpha"}

Lines == TextLines \cup PageMarkers

\* re.search(r'#\s*Page\s*(\d+)', line) on one line, and f"Page {match.group(1)}"
IsPageMarker(line) == line \in PageMarkers

PageName(line) == IF line = "# Page 1" THEN "Page 1" ELSE "Page 2"

\* re.search over a page_content: index of the first matching line, 0 if none
ReSearch(content) ==
    IF \E i \in 1..Len(content) : IsPageMarker(content[i])
    THEN CHOOSE i \in 1..Len(content) :
            /\ IsPageMarker(content[i])
            /\ \A j \in 1..(i - 1) : ~IsPageMarker(content[j])
    ELSE 0

\* --------------------------------------------------- doc_chunk_splits
\* A forward fill that forgets the page name at every Document without a marker.
RECURSIVE ForwardFillNoCarry(_, _)
ForwardFillNoCarry(docs, page_name) ==
    IF docs = <<>> THEN <<>>
    ELSE LET doc   == Head(docs)
             m     == ReSearch(doc.page_content)
             name  == IF m # 0 THEN PageName(doc.page_content[m]) ELSE None
             doc2  == [doc EXCEPT !.metadata.Page = name]
         IN  <<doc2>> \o ForwardFillNoCarry(Tail(docs), name)

\* Lines 56-67: the forward fill of doc.metadata["Page"] over header_splits.
RECURSIVE ForwardFill(_, _)
ForwardFill(docs, page_name) ==
    IF docs = <<>> THEN <<>>
    ELSE LET doc   == Head(docs)
             m     == ReSearch(doc.page_content)
             name  == IF m # 0 THEN PageName(doc.page_content[m]) ELSE page_name
             doc2  == [doc EXCEPT !.metadata.Page = name]
         IN  <<doc2>> \o ForwardFill(Tail(docs), name)

\* RecursiveCharacterTextSplitter.split_text on one page_content: windows of at
\* most `size` lines, each repeating the last `overlap` lines of the one before.
\* The result is the sequence of windows' first line indices.
RECURSIVE WindowStarts(_, _, _, _)
WindowStarts(len, size, overlap, start) ==
    IF len = 0 THEN <<>>
    ELSE IF start + size - 1 >= len THEN <<start>>
    ELSE <<start>> \o WindowStarts(len, size, overlap, start + (size - overlap))

Window(content, size, start) ==
    SubSeq(content, start, Min(Len(content), start + size - 1))

\* split_documents on one Document: every window copies the Document's metadata.
SplitDocument(doc, size, overlap) ==
    LET starts == WindowStarts(Len(doc.page_content), size, overlap, 1)
    IN  [k \in 1..Len(starts) |->
            [page_content |-> Window(doc.page_content, size, starts[k]),
             metadata     |-> doc.metadata]]

RECURSIVE SplitDocuments(_, _, _)
SplitDocuments(docs, size, overlap) ==
    IF docs = <<>> THEN <<>>
    ELSE SplitDocument(Head(docs), size, overlap)
            \o SplitDocuments(Tail(docs), size, overlap)

DocChunkSplits(docs, size, overlap) ==
    SplitDocuments(ForwardFill(docs, None), size, overlap)

\* ------------------------------------------------------ the collection
Procs == {"w1", "w2"}

\* The salt of str.__hash__, drawn when a Python process starts.
Seeds == 0..MaxRestarts

\* hash(text) in a process salted with `seed`: a keyed hash of the text.  The
\* value is kept symbolic (salt and text); collisions are not modelled.
PyHash(seed, text) == <<seed, text>>

PdfPaths == {[stem |-> "a", suffix |-> ".pdf"], [stem |-> "b", suffix |-> ".pdf"]}

\* pathlib: Path.name and Path.stem
PathName(path) == path.stem \o path.suffix

PathStem(path) == path.stem

\* f"{pdf_path.stem}_{hash(chunk.page_content)}"
ChunkId(seed, path, text) == <<PathStem(path), PyHash(seed, text)>>

\* Embedding vectors (two components stand for the 768 of the index).
Vectors == {<<1, 0>>, <<0, 1>>, <<1, 1>>}

\* upsert_data, lines 80-92: docs_to_insert over zip(chunks, vectors).
DocsToInsert(seed, chunks, vectors, path) ==
    [i \in 1..Min(Len(chunks), Len(vectors)) |->
        [text      |-> chunks[i].page_content,
         embedding |-> vectors[i],
         metadata  |-> [source   |-> PathName(path),
                        page     |-> chunks[i].metadata.Page,
                        header   |-> chunks[i].metadata.Header1,
                        chunk_id |-> ChunkId(seed, path, chunks[i].page_content)]]]

\* The filter {"metadata.chunk_id": id}: the first record it matches, 0 if none.
FindOne(c, id) ==
    IF \E i \in 1..Len(c) : c[i].metadata.chunk_id = id
    THEN CHOOSE i \in 1..Len(c) :
            /\ c[i].metadata.chunk_id = id
            /\ \A j \in 1..(i - 1) : c[j].metadata.chunk_id # id
    ELSE 0

\* pymongo.ReplaceOne(filter, doc, upsert=True) applied to collection c.
ReplaceOne(c, doc) ==
    LET i == FindOne(c, doc.metadata.chunk_id)
    IN  IF i # 0 THEN [c EXCEPT ![i] = doc] ELSE Append(c, doc)

\* coll.bulk_write of one ReplaceOne per doc, in order, by a single client:
\* the collection after it, and the matched / upserted counts of the result.
RECURSIVE BulkWrite(_, _)
BulkWrite(c, docs) ==
    IF docs = <<>> THEN [coll |-> c, matched_count |-> 0, upserted_count |-> 0]
    ELSE LET hit  == FindOne(c, Head(docs).metadata.chunk_id) # 0
             rest == BulkWrite(ReplaceOne(c, Head(docs)), Tail(docs))
         IN  [coll           |-> rest.coll,
              matched_count  |-> rest.matched_count + (IF hit THEN 1 ELSE 0),
              upserted_count |-> rest.upserted_count + (IF hit THEN 0 ELSE 1)]

\* The identity the spec keys records by: (stem of the source, text).
Identity(r) == <<r.metadata.chunk_id[1], r.text>>

\* Chunks handed to upsert_data directly.
ApiChunks ==
    {[page_content |-> <<"alpha">>, metadata |-> [Header1 |-> "Intro", Page |-> "Page 1"]],
     [page_content |-> <<"beta", " ">>, metadata |-> [Header1 |-> None, Page |-> None]]}

\* The Documents a header split hands to doc_chunk_splits: no "Page" key yet.
HeaderTitles == {"Intro"}

Sections ==
    {[page_content |-> c, metadata |-> [Header1 |-> h, Page |-> None]] :
        c \in NonEmptySeqsUpTo(Lines, MaxSectionLen), h \in HeaderTitles}

\* <<chunk_size, chunk_overlap>>, in lines
ChunkParams == {<<1, 0>>, <<2, 1>>}

\* ------------------------------------------------ idle parts of the state
ChunkOff == /\ header_splits = <<>>
            /\ chunk_params = <<1, 0>>
            /\ chunked_docs = <<>>
            /\ chunk_pc = "off"

StoreOff == /\ coll = <<>>
            /\ search_indexes = {}
            /\ create_requests = <<>>

NoPath == <<"", "">>

NoRequest == [filename |-> [stem |-> "", suffix |-> ""],
              content  |-> [ok |-> TRUE, pages |-> <<>>]]

NoLocals == [md_path |-> NoPath, chunks |-> <<>>, vectors |-> <<>>,
             docs |-> <<>>, i |-> 0]

NoResponse == [status |-> 0, detail |-> "", filename |-> "",
               embeddings_count |-> 0, chunks_count |-> 0]

ProcOff == /\ restarts = 0
           /\ pc = [p \in Procs |-> "idle"]
           /\ req = [p \in Procs |-> NoRequest]
           /\ loc = [p \in Procs |-> NoLocals]
           /\ response = [p \in Procs |-> NoResponse]
           /\ effects = [p \in Procs |-> {}]
           /\ ingest_log = {}

\* A path that names no file, and the file a path names.
NoFile == [exists |-> FALSE, lines |-> <<>>]

\* Path.stem of the uploads that pass the file type check
UploadStems == {"a"}

\* A.lower() for the suffixes in use
Lower(suffix) == IF suffix = ".PDF" THEN ".pdf" ELSE suffix

\* rest_api.py lines 77-78
HeaderFilename(stem) == stem \o "_header_splits.jsonl"

CharFilename(stem) == stem \o "_char_splits.jsonl"

\* The folders of DocumentChunking.__init__ and DocumentProcessor.__init__,
\* and pdf_folder; a path is <<folder, file name>>.
HeaderSplitsFolder == "output/doc_header_splits"

CharSplitsFolder == "output/doc_char_splits"

MarkdownFolder == "output/markdown"

PdfFolder == "data"

JsonlPaths ==
    {<<HeaderSplitsFolder, HeaderFilename(stem)>> : stem \in UploadStems}
        \cup {<<CharSplitsFolder, CharFilename(stem)>> : stem \in UploadStems}

FilePaths ==
    JsonlPaths
        \cup {<<MarkdownFolder, stem \o ".md">> : stem \in UploadStems}
        \cup {<<PdfFolder, stem \o suffix>> : stem \in UploadStems, suffix \in {".pdf", ".PDF"}}

FilesOff == files = [path \in FilePaths |-> NoFile]

NoCall == [op |-> None]

CallsOff == /\ calls = 0
            /\ last_call = NoCall
            /\ history = [path \in JsonlPaths |-> <<>>]

\* ------------------------------------------- specification: the chunker
InitChunk ==
    /\ header_splits \in SeqsUpTo(Sections, MaxSections)
    /\ chunk_params \in ChunkParams
    /\ chunked_docs = <<>>
    /\ chunk_pc = "start"
    /\ hash_seed = [p \in Procs |-> 0]
    /\ StoreOff /\ ProcOff /\ FilesOff /\ CallsOff

\* chunker.doc_chunk_splits(header_splits): the Documents passed in are
\* updated in place (doc.metadata["Page"] = ...), the chunks are returned.
CallDocChunkSplits ==
    /\ chunk_pc = "start"
    /\ header_splits' = ForwardFill(header_splits, None)
    /\ chunked_docs' = DocChunkSplits(header_splits, chunk_params[1], chunk_params[2])
    /\ chunk_pc' = "done"
    /\ UNCHANGED <<chunk_params, storeVars, procVars, fileVars, callVars>>

NextChunk == CallDocChunkSplits

SpecChunk == InitChunk /\ [][NextChunk]_vars

\* For each chunk of DocChunkSplits, in order: <<index of its Document,
\* index of its first line within that Document>>.
RECURSIVE ChunkOrigins(_, _, _, _)
ChunkOrigins(docs, size, overlap, s) ==
    IF s > Len(docs) THEN <<>>
    ELSE LET starts == WindowStarts(Len(docs[s].page_content), size, overlap, 1)
         IN  [k \in 1..Len(starts) |-> <<s, starts[k]>>]
                \o ChunkOrigins(docs, size, overlap, s + 1)

Origins == ChunkOrigins(header_splits, chunk_params[1], chunk_params[2], 1)

\* The original document: the Documents' text, in order.
OriginalDocument ==
    Concat([s \in 1..Len(header_splits) |-> header_splits[s].page_content])

\* Offset in OriginalDocument of line `start` of Document s.
RECURSIVE OffsetOf(_, _)
OffsetOf(s, start) ==
    IF s = 1 THEN start
    ELSE Len(header_splits[s - 1].page_content) + OffsetOf(s - 1, start)

Max(S) == CHOOSE x \in S : \A y \in S : y <= x

\* Label of the last page marker at or before offset `off`, None if there is none.
LastMarkerAtOrBefore(off) ==
    LET at == {i \in 1..off : IsPageMarker(OriginalDocument[i])}
    IN  IF at = {} THEN None ELSE PageName(OriginalDocument[Max(at)])

\* Label a Document resolves to: the first marker of the nearest Document at or
\* before it that holds a marker, None if there is none.
SectionLabel(s) ==
    LET with == {j \in 1..s : ReSearch(header_splits[j].page_content) # 0}
    IN  IF with = {} THEN None
        ELSE LET c == header_splits[Max(with)].page_content
             IN  PageName(c[ReSearch(c)])

\* C2 (as stated): every chunk's Page is the label of the last page marker at or
\* before the chunk's start offset in the original document, None if no marker
\* occurs before it.
C2_LastMarkerBeforeChunkStart ==
    chunk_pc = "done" =>
        \A k \in 1..Len(chunked_docs) :
            chunked_docs[k].metadata.Page
                = LastMarkerAtOrBefore(OffsetOf(Origins[k][1], Origins[k][2]))

\* C2 (amended): every chunk's Page is the label its header section resolved to:
\* the first page marker inside the section when it holds one, otherwise the label
\* of the nearest earlier section that holds one, None when there is none; every
\* chunk of a section carries that one label, wherever the chunk starts.
C2_SectionGranularForwardFill ==
    chunk_pc = "done" =>
        /\ Len(chunked_docs) = Len(Origins)
        /\ \A k \in 1..Len(chunked_docs) :
              /\ chunked_docs[k].metadata.Page = SectionLabel(Origins[k][1])
              /\ chunked_docs[k].metadata.Header1
                    = header_splits[Origins[k][1]].metadata.Header1

\* C2 witness: a chunk of a marker-free section inherited an earlier section's
\* label, and a chunk that starts after a second marker of its own section kept
\* the section's first.
C2_Witness ==
    /\ chunk_pc = "done"
    /\ \E k \in 1..Len(chunked_docs) :
          /\ ReSearch(header_splits[Origins[k][1]].page_content) = 0
          /\ chunked_docs[k].metadata.Page = "Page 1"
    /\ \E k \in 1..Len(chunked_docs) :
          /\ chunked_docs[k].page_content = <<"# Page 2">>
          /\ chunked_docs[k].metadata.Page = "Page 1"

\* --------------------------------- specification: upsert_data, called directly
InitUpsert ==
    /\ hash_seed \in {h \in [Procs -> Seeds] : h["w2"] = 0}
    /\ ChunkOff /\ StoreOff /\ ProcOff /\ FilesOff /\ CallsOff

\* upsert_data(chunks, vectors, pdf_path) in process p, start to return.
UpsertData(p, chunks, vectors, path) ==
    LET docs_to_insert == DocsToInsert(hash_seed[p], chunks, vectors, path)
        result         == BulkWrite(coll, docs_to_insert)
    IN  /\ calls < MaxCalls
        /\ Len(result.coll) <= MaxStore
        /\ coll' = IF docs_to_insert # <<>> THEN result.coll ELSE coll
        /\ calls' = calls + 1
        /\ last_call' = [op             |-> "upsert_data",
                         chunks         |-> chunks,
                         vectors        |-> vectors,
                         path           |-> path,
                         raised         |-> FALSE,
                         matched_count  |-> result.matched_count,
                         upserted_count |-> result.upserted_count]
        /\ UNCHANGED <<chunkVars, search_indexes, create_requests, procVars,
                       fileVars, history>>

\* The serving process p stops and a new one starts: a new hash salt.
RestartProcess(p) ==
    /\ restarts < MaxRestarts
    /\ restarts' = restarts + 1
    /\ \E seed \in Seeds : hash_seed' = [hash_seed EXCEPT ![p] = seed]
    /\ pc' = [pc EXCEPT ![p] = "idle"]
    /\ req' = [req EXCEPT ![p] = NoRequest]
    /\ loc' = [loc EXCEPT ![p] = NoLocals]
    /\ effects' = [effects EXCEPT ![p] = {}]
    /\ ingest_log' = IF pc[p] = "idle" THEN ingest_log
                     ELSE ingest_log \cup {<<p, req[p], "failed">>}
    /\ UNCHANGED <<chunkVars, storeVars, response, fileVars, callVars>>

NextUpsert ==
    \/ \E chunks \in SeqsUpTo(ApiChunks, MaxBatch),
          vectors \in SeqsUpTo(Vectors \ {<<1, 1>>}, MaxBatch),
          path \in PdfPaths :
            UpsertData("w1", chunks, vectors, path)
    \/ RestartProcess("w1")

SpecUpsert == InitUpsert /\ [][NextUpsert]_vars

\* C1 (as stated): after any sequence of upsert_data calls the store holds at most
\* one record per chunk identity (stem of the source, text); upserting the same
\* chunk again replaces its record and inserts nothing.
C1_OneRecordPerIdentity ==
    \A i, j \in 1..Len(coll) :
        Identity(coll[i]) = Identity(coll[j]) => i = j

\* C8 (as stated): a call whose chunks and vectors differ in length is reported
\* as an error and writes no record; with equal lengths every chunk is written
\* with the vector at its position.
C8_LengthMismatchIsAnError ==
    [][(calls' = calls + 1 /\ last_call'.op = "upsert_data")
        => IF Len(last_call'.chunks) # Len(last_call'.vectors)
           THEN last_call'.raised /\ coll' = coll
           ELSE \A i \in 1..Len(last_call'.chunks) :
                  \E k \in 1..Len(coll') :
                     /\ coll'[k].text = last_call'.chunks[i].page_content
                     /\ \E n \in 1..Len(last_call'.chunks) :
                          /\ last_call'.chunks[n] = last_call'.chunks[i]
                          /\ coll'[k].embedding = last_call'.vectors[n]]_vars

\* ------------------------------------------------------------- retrieval
\* INDEX_NAME = os.getenv("MONGO_VECTOR_INDEX")
IndexName == "MONGO_VECTOR_INDEX"

Dot(a, b) == a[1] * b[1] + a[2] * b[2]

\* "similarity": "cosine": cos(q, a) > cos(q, b), for vectors without negative
\* components, compared without division.
MoreSimilar(q, a, b) == Dot(q, a) * Dot(q, a) * Dot(b, b) > Dot(q, b) * Dot(q, b) * Dot(a, a)

\* A "limit" that asks for as many results as there are candidates.
SearchLimitCandidates(top_k) == top_k * NumCandidatesFactor

\* "limit": top_k
SearchLimit(top_k) == top_k

\* "numCandidates": top_k * 20
NumCandidates(top_k) == top_k * NumCandidatesFactor

\* The $vectorSearch stage over collection c: every result the approximate
\* search may return, as sequences of positions in c.  The search considers
\* numCandidates of the records (all of them when there are no more than that),
\* returns the `limit` most similar of those by descending score, and leaves the
\* order among equal scores open.  The index is taken to be in step with c.
VectorSearch(c, indexes, q, numCandidates, limit) ==
    IF IndexName \notin indexes THEN {<<>>}
    ELSE LET N == Len(c)
             Cands == {S \in SUBSET (1..N) : Cardinality(S) = Min(numCandidates, N)}
         IN  UNION {
               {r \in [1..Min(limit, Cardinality(S)) -> S] :
                  /\ \A i, j \in 1..Len(r) : r[i] = r[j] => i = j
                  /\ \A i, j \in 1..Len(r) :
                        i < j => ~MoreSimilar(q, c[r[j]].embedding, c[r[i]].embedding)
                  /\ \A x \in S : \A i \in 1..Len(r) :
                        MoreSimilar(q, c[x].embedding, c[r[i]].embedding)
                            => \E j \in 1..Len(r) : r[j] = x}
               : S \in Cands}

\* str.strip() on a text: leading and trailing whitespace lines go.
Whitespace == {" "}

RECURSIVE LStrip(_)
LStrip(text) ==
    IF text # <<>> /\ Head(text) \in Whitespace THEN LStrip(Tail(text)) ELSE text

RECURSIVE RStrip(_)
RStrip(text) ==
    IF text # <<>> /\ text[Len(text)] \in Whitespace
    THEN RStrip(SubSeq(text, 1, Len(text) - 1)) ELSE text

Strip(text) == RStrip(LStrip(text))

\* dict.get(key, default)
DictGet(d, key, default) == IF key \in DOMAIN d THEN d[key] ELSE default

\* f"[{i}] {source} | {header} | {page}:{text} "
CitationLine(i, result) ==
    [rank   |-> i,
     source |-> DictGet(result.metadata, "source", "Unknown"),
     header |-> DictGet(result.metadata, "header", "Unknown"),
     page   |-> DictGet(result.metadata, "page", "Unknown"),
     text   |-> Strip(result.text)]

\* The separator "\n\n" of the join
BlankLine == [rank |-> 0, source |-> "", header |-> "", page |-> "", text |-> <<>>]

\* "\n\n".join(context)
RECURSIVE JoinBlank(_)
JoinBlank(context) ==
    IF Len(context) <= 1 THEN context
    ELSE <<Head(context), BlankLine>> \o JoinBlank(Tail(context))

\* Lines 135-143: the cursor's results, enumerated from 1, formatted and joined.
FormatContext(c, results) ==
    JoinBlank([i \in 1..Len(results) |-> CitationLine(i, c[results[i]])])

\* Records as upsert_data writes them.
WrittenRecords ==
    {DocsToInsert(0, <<chunk>>, <<vector>>, path)[1] :
        chunk \in ApiChunks, vector \in Vectors, path \in PdfPaths}

\* ------------------------------- specification: search_result_for_llm
InitSearch ==
    /\ coll \in {c \in SeqsUpTo(WrittenRecords, MaxStore) :
                    \A i, j \in 1..Len(c) :
                        c[i].metadata.chunk_id = c[j].metadata.chunk_id => i = j}
    /\ search_indexes = {IndexName}
    /\ create_requests = <<>>
    /\ hash_seed = [p \in Procs |-> 0]
    /\ ChunkOff /\ ProcOff /\ FilesOff /\ CallsOff

\* search_result_for_llm(query, top_k, embeddings); query_emb is what
\* embeddings.embed_query(query) returned.
SearchResultForLlm(query_emb, top_k) ==
    /\ \E results \in VectorSearch(coll, search_indexes, query_emb,
                                   NumCandidates(top_k), SearchLimit(top_k)) :
          last_call' = [op        |-> "search_result_for_llm",
                        query_emb |-> query_emb,
                        top_k     |-> top_k,
                        results   |-> results,
                        context   |-> FormatContext(coll, results)]
    /\ UNCHANGED <<chunkVars, storeVars, procVars, fileVars, calls, history>>

NextSearch ==
    \E query_emb \in Vectors, top_k \in 1..UserQueryTopK :
        SearchResultForLlm(query_emb, top_k)

SpecSearch == InitSearch /\ [][NextSearch]_vars

Searched == last_call.op = "search_result_for_llm"

\* Position p of the collection ranks before position q: more similar to the
\* query, or as similar and inserted earlier.
RanksBefore(p, q) ==
    \/ MoreSimilar(last_call.query_emb, coll[p].embedding, coll[q].embedding)
    \/ /\ ~MoreSimilar(last_call.query_emb, coll[q].embedding, coll[p].embedding)
       /\ p < q

\* The position holding rank i in descending similarity, ties by insertion order.
Ranked(i) ==
    CHOOSE p \in 1..Len(coll) :
        Cardinality({q \in 1..Len(coll) : q # p /\ RanksBefore(q, p)}) = i - 1

\* Number of citation lines of a joined context.
LineCount(context) == (Len(context) + 1) \div 2

JsonLine(doc) == [page_content |-> doc.page_content, metadata |-> doc.metadata]

\* open(save_path, "a"): the lines the file held stay.
OpenAppend(file) == file.lines

\* open(save_path, "w"): the file is created or truncated.
OpenWrite(file) == <<>>

\* Lines 84-98: the files after save_splits_jsonl(documents, filename, folder_path).
SaveSplitsJsonl(fs, documents, filename, folder_path) ==
    LET save_path == <<folder_path, filename>>
        written   == [i \in 1..Len(documents) |-> JsonLine(documents[i])]
    IN  [fs EXCEPT ![save_path] =
            [exists |-> TRUE, lines |-> OpenWrite(fs[save_path]) \o written]]

\* ---------------------------- specification: save_splits_jsonl, called directly
InitWriter ==
    /\ files = [path \in FilePaths |-> NoFile]
    /\ calls = 0
    /\ last_call = NoCall
    /\ history = [path \in JsonlPaths |-> <<>>]
    /\ hash_seed = [p \in Procs |-> 0]
    /\ ChunkOff /\ StoreOff /\ ProcOff

\* chunker.save_splits_jsonl(documents, filename, folder_path); `history`
\* remembers every batch handed in for the destination.
CallSaveSplitsJsonl(documents, save_path) ==
    /\ calls < MaxWrites
    /\ calls' = calls + 1
    /\ files' = SaveSplitsJsonl(files, documents, save_path[2], save_path[1])
    /\ history' = [history EXCEPT ![save_path] = Append(@, documents)]
    /\ last_call' = [op |-> "save_splits_jsonl", save_path |-> save_path]
    /\ UNCHANGED <<chunkVars, storeVars, procVars>>

NextWriter ==
    \E documents \in SeqsUpTo(ApiChunks, MaxBatch), save_path \in JsonlPaths :
        CallSaveSplitsJsonl(documents, save_path)

SpecWriter == InitWriter /\ [][NextWriter]_vars

JsonLines(documents) == [i \in 1..Len(documents) |-> JsonLine(documents[i])]

CorruptPdf == [ok |-> FALSE, pages |-> <<>>]

BlankPdf == [ok |-> TRUE, pages |-> << <<>> >>]

ShortPdf == [ok |-> TRUE, pages |-> << <<"alpha">> >>]

LongPdf == [ok |-> TRUE, pages |-> << <<"## Intro">> >>]

PdfName == [stem |-> "a", suffix |-> ".pdf"]

UpperName == [stem |-> "a", suffix |-> ".PDF"]

TxtName == [stem |-> "notes", suffix |-> ".txt"]

Uploads ==
    {[filename |-> PdfName, content |-> c] : c \in {CorruptPdf, BlankPdf, ShortPdf, LongPdf}}
        \cup {[filename |-> UpperName, content |-> ShortPdf],
              [filename |-> TxtName, content |-> ShortPdf]}

\* file.filename.lower().endswith('.pdf')
IsPdfName(filename) == Lower(filename.suffix) = ".pdf"

\* f'\n\n# Page {i}\n\n {segment.strip()}\n'
PageMarkerLine(i) == IF i = 1 THEN "# Page 1" ELSE "# Page 2"

\* pdf_processor.py lines 34-38: the pages, each non-blank one under its marker.
RECURSIVE NumberedOutput(_, _)
NumberedOutput(pages, i) ==
    IF i > Len(pages) THEN <<>>
    ELSE (IF pages[i] # <<>> THEN <<PageMarkerLine(i)>> \o pages[i] ELSE <<>>)
            \o NumberedOutput(pages, i + 1)

MdPath(pdf_path) == <<MarkdownFolder, PathStem(pdf_path) \o ".md">>

\* A conversion that opens the markdown file before it converts.
ConvertToMarkdownOpenFirst(fs, pdf_path, pdf) ==
    IF ~pdf.ok
    THEN [raised |-> TRUE, md_path |-> NoPath, wrote |-> TRUE,
          files |-> [fs EXCEPT ![MdPath(pdf_path)] = [exists |-> TRUE, lines |-> <<>>]]]
    ELSE [raised |-> FALSE, md_path |-> MdPath(pdf_path), wrote |-> TRUE,
          files |-> [fs EXCEPT ![MdPath(pdf_path)] =
                        [exists |-> TRUE, lines |-> NumberedOutput(pdf.pages, 1)]]]

\* DocumentProcessor.convert_to_markdown: the exception of converter.convert is
\* logged and raised again, before the markdown file is opened.
ConvertToMarkdown(fs, pdf_path, pdf) ==
    IF ~pdf.ok
    THEN [raised |-> TRUE, md_path |-> NoPath, wrote |-> FALSE, files |-> fs]
    ELSE [raised |-> FALSE, md_path |-> MdPath(pdf_path), wrote |-> TRUE,
          files |-> [fs EXCEPT ![MdPath(pdf_path)] =
                        [exists |-> TRUE, lines |-> NumberedOutput(pdf.pages, 1)]]]

\* headers_to_split_on = [("##", "Header 1")]
HeaderLines == {"## Intro"}

HeaderTitle(line) == IF line \in HeaderLines THEN "Intro" ELSE None

\* doc_header_split: a new Document starts at every header line, the header
\* line kept (strip_headers=False); text before the first header has no title.
DocHeaderSplit(markdown_document) ==
    LET starts == {i \in 1..Len(markdown_document) :
                      i = 1 \/ markdown_document[i] \in HeaderLines}
        nth(k) == CHOOSE i \in starts : Cardinality({j \in starts : j < i}) = k - 1
        last(k) == IF k = Cardinality(starts) THEN Len(markdown_document)
                   ELSE nth(k + 1) - 1
    IN  [k \in 1..Cardinality(starts) |->
            [page_content |-> SubSeq(markdown_document, nth(k), last(k)),
             metadata     |-> [Header1 |-> HeaderTitle(markdown_document[nth(k)]),
                               Page    |-> None]]]

\* chunk_size=1000, chunk_overlap=100, counted in lines
UploadChunkParams == <<2, 1>>

\* embeddings.embed_documents(docs): one vector per text, a function of the text
EmbedText(text) == IF Len(text) = 1 THEN <<1, 0>> ELSE <<0, 1>>

EmbedDocuments(docs) == [i \in 1..Len(docs) |-> EmbedText(docs[i])]

\* The except clause of upload_file: HTTPException(status_code=500, ...)
ErrorResponse(filename, detail) ==
    [status |-> 500, detail |-> "Error processing file: " \o detail,
     filename |-> PathName(filename), embeddings_count |-> 0, chunks_count |-> 0]

Respond(p, resp, outcome) ==
    /\ response' = [response EXCEPT ![p] = resp]
    /\ pc' = [pc EXCEPT ![p] = "idle"]
    /\ ingest_log' = ingest_log \cup {<<p, req[p], outcome>>}

\* Lines 50-63: the request arrives, the file type is checked, the file is
\* saved under data/.  The HTTPException of the check is raised inside the try
\* block, whose except clause catches every Exception.
ReceiveUpload(p, file) ==
    /\ pc[p] = "idle"
    /\ calls < MaxCalls
    /\ calls' = calls + 1
    /\ req' = [req EXCEPT ![p] = file]
    /\ loc' = [loc EXCEPT ![p] = NoLocals]
    /\ IF ~IsPdfName(file.filename)
       THEN /\ response' = [response EXCEPT ![p] =
                    ErrorResponse(file.filename, "400: Only pdf file allowed")]
            /\ ingest_log' = ingest_log \cup {<<p, file, "failed">>}
            /\ effects' = [effects EXCEPT ![p] = {}]
            /\ UNCHANGED <<pc, files>>
       ELSE /\ files' = [files EXCEPT ![<<PdfFolder, PathName(file.filename)>>] =
                            [exists |-> TRUE, lines |-> <<file.content>>]]
            /\ effects' = [effects EXCEPT ![p] = {"pdf"}]
            /\ response' = [response EXCEPT ![p] = NoResponse]
            /\ pc' = [pc EXCEPT ![p] = "convert"]
            /\ UNCHANGED ingest_log
    /\ UNCHANGED <<chunkVars, storeVars, hash_seed, restarts, last_call, history>>

\* Lines 65-67: processor.convert_to_markdown(pdf_path=file_path)
Convert(p) ==
    /\ pc[p] = "convert"
    /\ LET r == ConvertToMarkdown(files, req[p].filename, req[p].content)
       IN  /\ files' = r.files
           /\ effects' = [effects EXCEPT ![p] = IF r.wrote THEN @ \cup {"markdown"} ELSE @]
           /\ IF r.raised
              THEN /\ Respond(p, ErrorResponse(req[p].filename, "ConversionError"), "failed")
                   /\ UNCHANGED loc
              ELSE /\ loc' = [loc EXCEPT ![p].md_path = r.md_path]
                   /\ pc' = [pc EXCEPT ![p] = "split"]
                   /\ UNCHANGED <<response, ingest_log>>
    /\ UNCHANGED <<chunkVars, storeVars, hash_seed, restarts, req, callVars>>

\* Lines 69-83: the markdown file is read back and split by headers, the
\* sections are chunked, and both lists are saved as JSONL.
ChunkAndSave(p) ==
    /\ pc[p] = "split"
    /\ LET stem              == PathStem(req[p].filename)
           doc_header_splits == DocHeaderSplit(files[loc[p].md_path].lines)
           doc_char_splits   == DocChunkSplits(doc_header_splits,
                                    UploadChunkParams[1], UploadChunkParams[2])
           saved_header      == SaveSplitsJsonl(files, ForwardFill(doc_header_splits, None),
                                    HeaderFilename(stem), HeaderSplitsFolder)
       IN  /\ files' = SaveSplitsJsonl(saved_header, doc_char_splits,
                                       CharFilename(stem), CharSplitsFolder)
           /\ loc' = [loc EXCEPT ![p].chunks = doc_char_splits]
    /\ effects' = [effects EXCEPT ![p] = @ \cup {"header_jsonl", "char_jsonl"}]
    /\ pc' = [pc EXCEPT ![p] = "embed"]
    /\ UNCHANGED <<chunkVars, storeVars, hash_seed, restarts, req, response,
                   ingest_log, callVars>>

\* Lines 85-91: the chunk texts are embedded; the log line reads vectors[0].
Embed(p) ==
    /\ pc[p] = "embed"
    /\ LET docs    == [i \in 1..Len(loc[p].chunks) |-> loc[p].chunks[i].page_content]
           vectors == EmbedDocuments(docs)
       IN  IF vectors = <<>>
           THEN /\ Respond(p, ErrorResponse(req[p].filename,
                                            "list index out of range"), "failed")
                /\ UNCHANGED loc
           ELSE /\ loc' = [loc EXCEPT ![p].vectors = vectors]
                /\ pc' = [pc EXCEPT ![p] = "list_index"]
                /\ UNCHANGED <<response, ingest_log>>
    /\ UNCHANGED <<chunkVars, storeVars, hash_seed, restarts, req, effects,
                   fileVars, callVars>>

\* The body of the success return of upload_file.
SuccessResponse(p) ==
    [status |-> 200, detail |-> "File processed successfully",
     filename |-> PathName(req[p].filename),
     embeddings_count |-> Len(loc[p].vectors), chunks_count |-> Len(loc[p].chunks)]

\* upsert_data entered: docs_to_insert is built from the handler's locals.
EnterUpsert(p) ==
    [loc[p] EXCEPT !.docs = DocsToInsert(hash_seed[p], loc[p].chunks, loc[p].vectors,
                                         req[p].filename),
                   !.i = 1]

\* create_vector_index, line 67: coll.list_search_indexes().  When the name is
\* listed the function returns and upsert_data starts.
ListSearchIndexes(p) ==
    /\ pc[p] = "list_index"
    /\ IF IndexName \in search_indexes
       THEN /\ loc' = [loc EXCEPT ![p] = EnterUpsert(p)]
            /\ pc' = [pc EXCEPT ![p] = "bulk"]
       ELSE /\ pc' = [pc EXCEPT ![p] = "create_index"]
            /\ UNCHANGED loc
    /\ UNCHANGED <<chunkVars, storeVars, hash_seed, restarts, req, response,
                   effects, ingest_log, fileVars, callVars>>

\* create_vector_index, line 70: coll.create_search_indexes([vector_index]),
\* sent because the name was not listed.  The server refuses a name it holds.
CreateSearchIndexes(p) ==
    /\ pc[p] = "create_index"
    /\ create_requests' = Append(create_requests, IndexName \in search_indexes)
    /\ IF IndexName \in search_indexes
       THEN /\ Respond(p, ErrorResponse(req[p].filename, "Duplicate Index"), "failed")
            /\ UNCHANGED <<search_indexes, loc, effects>>
       ELSE /\ search_indexes' = search_indexes \cup {IndexName}
            /\ effects' = [effects EXCEPT ![p] = @ \cup {"index"}]
            /\ loc' = [loc EXCEPT ![p] = EnterUpsert(p)]
            /\ pc' = [pc EXCEPT ![p] = "bulk"]
            /\ UNCHANGED <<response, ingest_log>>
    /\ UNCHANGED <<chunkVars, coll, hash_seed, restarts, req, fileVars, callVars>>

\* After the i-th ReplaceOne of the batch: the next one, or the return of
\* upsert_data and of upload_file.
Advance(p) ==
    IF loc[p].i = Len(loc[p].docs)
    THEN /\ Respond(p, SuccessResponse(p), "ok")
         /\ UNCHANGED loc
    ELSE /\ loc' = [loc EXCEPT ![p].i = @ + 1]
         /\ pc' = [pc EXCEPT ![p] = "bulk"]
         /\ UNCHANGED <<response, ingest_log>>

\* bulk_write, the i-th ReplaceOne with upsert=True: the server looks the filter
\* up; a matching record is replaced on the spot, otherwise an insert follows.
BulkFind(p) ==
    /\ pc[p] = "bulk"
    /\ LET doc == loc[p].docs[loc[p].i]
       IN  IF FindOne(coll, doc.metadata.chunk_id) # 0
           THEN /\ coll' = ReplaceOne(coll, doc)
                /\ effects' = [effects EXCEPT ![p] = @ \cup {"store"}]
                /\ Advance(p)
           ELSE /\ pc' = [pc EXCEPT ![p] = "bulk_insert"]
                /\ UNCHANGED <<coll, effects, loc, response, ingest_log>>
    /\ UNCHANGED <<chunkVars, search_indexes, create_requests, hash_seed, restarts,
                   req, fileVars, callVars>>

\* The insert of an upsert whose filter matched nothing.  No unique index on
\* metadata.chunk_id exists, so nothing stops it when another client has
\* inserted the same chunk_id since the lookup.
BulkInsert(p) ==
    /\ pc[p] = "bulk_insert"
    /\ Len(coll) < MaxStore
    /\ coll' = Append(coll, loc[p].docs[loc[p].i])
    /\ effects' = [effects EXCEPT ![p] = @ \cup {"store"}]
    /\ Advance(p)
    /\ UNCHANGED <<chunkVars, search_indexes, create_requests, hash_seed, restarts,
                   req, fileVars, callVars>>

\* ---------------------------------- specification: the upload service
Init ==
    /\ hash_seed \in [Procs -> Seeds]
    /\ history = [path \in JsonlPaths |-> <<>>]
    /\ calls = 0
    /\ last_call = NoCall
    /\ ChunkOff /\ StoreOff /\ ProcOff /\ FilesOff

\* One step of the serving process p.
Step(p) ==
    \/ \E file \in Uploads : ReceiveUpload(p, file)
    \/ Convert(p)
    \/ ChunkAndSave(p)
    \/ Embed(p)
    \/ ListSearchIndexes(p)
    \/ CreateSearchIndexes(p)
    \/ BulkFind(p)
    \/ BulkInsert(p)
    \/ RestartProcess(p)

\* Several serving processes (uvicorn workers, or instances of the service)
\* share the collection and the output folder.  Inside one process the handler
\* is an async function that never awaits, so its requests run one at a time.
Next == \E p \in Procs : Step(p)

Spec == Init /\ [][Next]_vars

\* ------------------- specification: the service as run.py starts it, one process
NextOneWorker == Step("w1")

SpecOneWorker == Init /\ [][NextOneWorker]_vars

\* ----------------------------------------------- claims about the service
\* The records one uninterrupted upload_file of `file` hands to bulk_write, in a
\* process salted with `seed`.
ExpectedDocs(seed, file) ==
    LET chunks == DocChunkSplits(DocHeaderSplit(NumberedOutput(file.content.pages, 1)),
                                 UploadChunkParams[1], UploadChunkParams[2])
        docs   == [i \in 1..Len(chunks) |-> chunks[i].page_content]
    IN  DocsToInsert(seed, chunks, EmbedDocuments(docs), file.filename)

Identities(records) == {Identity(records[i]) : i \in 1..Len(records)}

\* Every upload that has ended so far was an upload of `file`.
OnlyEverUploaded(file) == \A e \in ingest_log : e[2] = file

\* C4 (as stated): a create request for the index named INDEX_NAME is issued only
\* when no index of that name exists, so the index is created at most once.
C4_CreateOnlyWhenAbsent ==
    /\ \A n \in 1..Len(create_requests) : ~create_requests[n]
    /\ Cardinality({n \in 1..Len(create_requests) : ~create_requests[n]}) <= 1

\* C5 (as stated): when two upload requests for the same document have run
\* upsert_data in any interleaving, the store holds exactly one record per chunk
\* identity, equal to the record the requests wrote.  (Stated for two processes
\* that happen to share their hash salt and were never restarted, so that both
\* write the same chunk_id for the same chunk.)
C5_ConcurrentSameDocumentSafe ==
    \A file \in Uploads :
        ( /\ <<"w1", file, "ok">> \in ingest_log
          /\ <<"w2", file, "ok">> \in ingest_log
          /\ OnlyEverUploaded(file)
          /\ \A p \in Procs : pc[p] = "idle"
          /\ hash_seed["w1"] = hash_seed["w2"]
          /\ restarts = 0 )
        => /\ Len(coll) = Len(ExpectedDocs(hash_seed["w1"], file))
           /\ Range(coll) = Range(ExpectedDocs(hash_seed["w1"], file))

\* C6 (as stated): the first ingestion of a document failed at some step, the
\* process may have restarted, and the same ingestion was then re-run to
\* completion: the store holds the chunk identities of a single uninterrupted
\* ingestion of that document, one record each.
C6_RetryConverges ==
    \A file \in Uploads :
        ( /\ calls = 2
          /\ <<"w1", file, "failed">> \in ingest_log
          /\ OnlyEverUploaded(file)
          /\ pc["w1"] = "idle"
          /\ req["w1"] = file
          /\ response["w1"].status = 200 )
        => /\ Identities(coll) = Identities(ExpectedDocs(hash_seed["w1"], file))
           /\ Len(coll) = Len(ExpectedDocs(hash_seed["w1"], file))

\* C7 (as stated): an upload whose document yields zero chunks completes with a
\* non-error result reporting chunk count 0 and vector count 0, and writes
\* nothing to the store.
C7_EmptyUploadSucceeds ==
    \A p \in Procs :
        ( /\ pc[p] = "idle"
          /\ response[p].status # 0
          /\ IsPdfName(req[p].filename)
          /\ req[p].content.ok
          /\ ExpectedDocs(hash_seed[p], req[p]) = <<>> )
        => /\ response[p].status = 200
           /\ response[p].chunks_count = 0
           /\ response[p].embeddings_count = 0
           /\ "store" \notin effects[p]

AfterConversion == {"split", "embed", "list_index", "create_index", "bulk", "bulk_insert"}

Downstream == {"markdown", "header_jsonl", "char_jsonl", "index", "store"}

ConversionFailed(p) ==
    /\ pc[p] = "idle"
    /\ response[p].status # 0
    /\ IsPdfName(req[p].filename)
    /\ ~req[p].content.ok

NonPdfAnswered(p) ==
    /\ pc[p] = "idle"
    /\ response[p].status # 0
    /\ ~IsPdfName(req[p].filename)
    /\ response[p].filename = PathName(req[p].filename)

\* C11 (as stated): an upload whose name does not end in ".pdf", in any letter
\* case, is answered with status 400 and detail "Only pdf file allowed", and the
\* request saves no file, converts nothing, writes no chunk file, embeds nothing
\* and writes nothing to the store.
C11_NonPdfRejectedWith400 ==
    \A p \in Procs :
        NonPdfAnswered(p) =>
            /\ response[p].status = 400
            /\ response[p].detail = "Only pdf file allowed"
            /\ effects[p] = {}

\* The half of C11 about side effects alone: a rejected upload has saved,
\* converted, embedded and stored nothing.
NonPdfHasNoEffects ==
    \A p \in Procs : NonPdfAnswered(p) => effects[p] = {}

NonPdfReached == NonPdfAnswered("w1")

====
